---------------------------- MODULE Spec2Model ----------------------------
(***************************************************************************)
(* A model of css-colors-analyzer/analyzer.py: the colour model            *)
(* (normalize_hex_color, hex_to_rgb, rgb_to_hsl, determine_color_category),*)
(* the extractor (extract_colors_from_content, analyze_file), the          *)
(* aggregator (process_files) and the polling loop (watch_files).          *)
(*                                                                         *)
(* Strings the code manipulates character by character (hex colours) are   *)
(* sequences of one-character strings, "#" included.  A colour literal of  *)
(* a file's text is a record (see the literal constructors below); a       *)
(* file's text is the sequence of the literals it contains, in text order. *)
(* A Python dict is a sequence of entries in insertion order.              *)
(***************************************************************************)
EXTENDS Integers, Sequences, FiniteSets, TLC

VARIABLES
    pc,                       \* which pipeline runs, and where it stands
    fpLow,                    \* rounding of a double whose exact value is an integer
    hex_color, hsl, category, \* determine_color_category: argument, locals, result
    content, result,          \* extract_colors_from_content: argument, outcome
    files, disk,              \* the file list, and each path's file on disk
    idx, color_data, organized_data,   \* process_files: files done, locals
    last_modification_times, files_changed, emitted, report  \* watch_files: locals, output

vars == <<pc, fpLow, hex_color, hsl, category, content, result, files, disk,
          idx, color_data, organized_data, last_modification_times,
          files_changed, emitted, report>>

---------------------------------------------------------------------------
(* Bounds of the model. *)

MaxLits == 2      \* literals in one text
MaxFiles == 2     \* entries of the file list
MaxTime == 2      \* largest modification time

---------------------------------------------------------------------------
(* Generic helpers. *)

Range(s) == {s[i] : i \in 1..Len(s)}

NoDup(s) == \A i, j \in 1..Len(s) : i # j => s[i] # s[j]

IsPrefix(s, t) == Len(s) <= Len(t) /\ SubSeq(t, 1, Len(s)) = s

Max2(a, b) == IF a >= b THEN a ELSE b
Min2(a, b) == IF a <= b THEN a ELSE b

\* All sequences over S of length at most n.
RECURSIVE SeqsUpTo(_, _)
SeqsUpTo(S, n) ==
    IF n = 0 THEN {<<>>}
    ELSE LET shorter == SeqsUpTo(S, n - 1)
         IN  shorter \cup {Append(s, x) : s \in {t \in shorter : Len(t) = n - 1}, x \in S}

---------------------------------------------------------------------------
(* Characters and number formatting. *)

HexChars == <<"0", "1", "2", "3", "4", "5", "6", "7",
              "8", "9", "a", "b", "c", "d", "e", "f">>

\* str.lower() on one character of a hex literal.
Lower(c) ==
    CASE c = "A" -> "a" [] c = "B" -> "b" [] c = "C" -> "c"
      [] c = "D" -> "d" [] c = "E" -> "e" [] c = "F" -> "f"
      [] OTHER -> c

LowerSeq(s) == [i \in 1..Len(s) |-> Lower(s[i])]

\* int(c, 16) for one hex digit, either case.
HexVal(c) == (CHOOSE i \in 1..16 : HexChars[i] = Lower(c)) - 1

\* The hexadecimal digits of n >= 0, most significant first, no padding.
RECURSIVE HexDigits(_)
HexDigits(n) ==
    IF n < 16 THEN <<HexChars[n + 1]>>
    ELSE Append(HexDigits(n \div 16), HexChars[(n % 16) + 1])

\* format(n, '02x') for n >= 0: at least two digits, more when n > 255.
Fmt02x(n) == IF n < 16 THEN <<"0", HexChars[n + 1]>> ELSE HexDigits(n)

\* f'#{r:02x}{g:02x}{b:02x}'
FormatHex(r, g, b) == <<"#">> \o Fmt02x(r) \o Fmt02x(g) \o Fmt02x(b)

\* int(x) of a double x >= 0 whose exact value is num/den.  When the exact
\* value is not an integer the rounding error of the double cannot cross
\* one, and int() is the exact floor.  When it is a positive integer n, the
\* double may have landed just below it, and int() gives n or n - 1: fpLow
\* is that outcome.  Zero is computed exactly.
Trunc(num, den) ==
    IF num % den = 0 /\ num # 0 /\ fpLow
    THEN (num \div den) - 1
    ELSE num \div den

---------------------------------------------------------------------------
(* Colour model. *)

normalize_hex_color(hex) ==
    LET low == LowerSeq(hex)
    IN  IF Len(low) = 4
        THEN <<"#", low[2], low[2], low[3], low[3], low[4], low[4]>>
        ELSE low

hex_to_rgb(hex) ==
    LET h == Tail(normalize_hex_color(hex))
    IN  <<16 * HexVal(h[1]) + HexVal(h[2]),
          16 * HexVal(h[3]) + HexVal(h[4]),
          16 * HexVal(h[5]) + HexVal(h[6])>>

\* rgb_to_hsl with colorsys.rgb_to_hls inlined, on integers: every double
\* is kept as an exact fraction and truncated by Trunc.  With maxc, minc
\* the extreme channels (0..255): l = (maxc+minc)/510; s = range/(maxc+minc)
\* when l <= 0.5, else range/(510-maxc-minc); h = ((sector)/6) mod 1.
rgb_to_hsl(r, g, b) ==
    LET maxc == Max2(r, Max2(g, b))
        minc == Min2(r, Min2(g, b))
        sumc == maxc + minc
        rangec == maxc - minc
        l == Trunc(100 * sumc, 510)
    IN  IF minc = maxc THEN <<0, 0, l>>
        ELSE LET s == IF sumc <= 255
                      THEN Trunc(100 * rangec, sumc)
                      ELSE Trunc(100 * rangec, 510 - sumc)
                 \* six times the hue, times rangec
                 h6 == IF r = maxc THEN g - b
                       ELSE IF g = maxc THEN 2 * rangec + (b - r)
                       ELSE 4 * rangec + (r - g)
                 h == Trunc((60 * h6) % (360 * rangec), rangec)
             IN  <<h, s, l>>

\* The chain with the white threshold written "l >= 90".
CategoryOfWhiteFrom90(h, s, l) ==
    IF s < 10
    THEN IF l < 10 THEN "black"
         ELSE IF l >= 90 THEN "white"
         ELSE "gray"
    ELSE IF h < 15 \/ h >= 345 THEN "red"
         ELSE IF h < 45 THEN "orange"
         ELSE IF h < 75 THEN "yellow"
         ELSE IF h < 165 THEN "green"
         ELSE IF h < 195 THEN "teal"
         ELSE IF h < 255 THEN "blue"
         ELSE IF h < 315 THEN "purple"
         ELSE "pink"

\* The if/elif chain of determine_color_category on (h, s, l).
CategoryOf(h, s, l) ==
    IF s < 10
    THEN IF l < 10 THEN "black"
         ELSE IF l > 90 THEN "white"
         ELSE "gray"
    ELSE IF h < 15 \/ h >= 345 THEN "red"
         ELSE IF h < 45 THEN "orange"
         ELSE IF h < 75 THEN "yellow"
         ELSE IF h < 165 THEN "green"
         ELSE IF h < 195 THEN "teal"
         ELSE IF h < 255 THEN "blue"
         ELSE IF h < 315 THEN "purple"
         ELSE "pink"

determine_color_category(hex) ==
    LET rgb == hex_to_rgb(hex)
        t == rgb_to_hsl(rgb[1], rgb[2], rgb[3])
    IN  CategoryOf(t[1], t[2], t[3])

---------------------------------------------------------------------------
(* Colour literals.  A literal is what one of the six regular expressions  *)
(* matches: kind names the expression, txt holds the characters of a hex   *)
(* literal, args the integers of rgb/rgba/hsl/hsla, alpha the alpha text,  *)
(* name the spelling of a named colour.                                    *)

HexLit(txt) == [kind |-> "hex", txt |-> txt, args |-> <<>>, alpha |-> "", name |-> ""]
RgbLit(r, g, b) == [kind |-> "rgb", txt |-> <<>>, args |-> <<r, g, b>>, alpha |-> "", name |-> ""]
RgbaLit(r, g, b, a) == [kind |-> "rgba", txt |-> <<>>, args |-> <<r, g, b>>, alpha |-> a, name |-> ""]
HslLit(h, s, l) == [kind |-> "hsl", txt |-> <<>>, args |-> <<h, s, l>>, alpha |-> "", name |-> ""]
HslaLit(h, s, l, a) == [kind |-> "hsla", txt |-> <<>>, args |-> <<h, s, l>>, alpha |-> a, name |-> ""]
NamedLit(n) == [kind |-> "named", txt |-> <<>>, args |-> <<>>, alpha |-> "", name |-> n]

\* Part of the NAMED_COLORS table; "gray" and "grey" share one value.
NAMED_COLORS ==
    [n \in {"red", "white", "black", "gray", "grey", "blue"} |->
        CASE n = "red" -> <<"#", "f", "f", "0", "0", "0", "0">>
          [] n = "white" -> <<"#", "f", "f", "f", "f", "f", "f">>
          [] n = "black" -> <<"#", "0", "0", "0", "0", "0", "0">>
          [] n = "gray" -> <<"#", "8", "0", "8", "0", "8", "0">>
          [] n = "grey" -> <<"#", "8", "0", "8", "0", "8", "0">>
          [] n = "blue" -> <<"#", "0", "0", "0", "0", "f", "f">>]

\* str.lower() on the spelling of a named colour (re.IGNORECASE matches
\* any casing of a table key).
LowerName(n) ==
    CASE n = "RED" -> "red" [] n = "Red" -> "red"
      [] n = "WHITE" -> "white" [] n = "Blue" -> "blue"
      [] OTHER -> n

\* match.groups() of a literal: the rgba and hsla expressions hold a fifth
\* group, the optional (\.0) inside the alpha alternative, which is None
\* unless alpha is written 1.0.
Groups(lit) ==
    IF lit.kind \in {"rgba", "hsla"}
    THEN lit.args \o <<lit.alpha, IF lit.alpha = "1.0" THEN ".0" ELSE "None">>
    ELSE lit.args

\* The first characters of a literal's text, as str.startswith reads them.
StartsWith(lit, prefix) ==
    CASE prefix = "#" -> lit.kind = "hex" /\ Len(lit.txt) > 0 /\ lit.txt[1] = "#"
      [] prefix = "rgb(" -> lit.kind = "rgb"
      [] prefix = "rgba(" -> lit.kind = "rgba"
      [] prefix = "hsl(" -> lit.kind = "hsl"
      [] prefix = "hsla(" -> lit.kind = "hsla"
      [] OTHER -> FALSE

format_of_color(color) ==
    IF StartsWith(color, "#") THEN "hex"
    ELSE IF StartsWith(color, "rgb(") THEN "rgb"
    ELSE IF StartsWith(color, "rgba(") THEN "rgba"
    ELSE IF StartsWith(color, "hsl(") THEN "hsl"
    ELSE IF StartsWith(color, "hsla(") THEN "hsla"
    ELSE "named"

---------------------------------------------------------------------------
(* Extractor. *)

\* One channel of colorsys.hls_to_rgb(h/360, l/100, s/100) as an exact
\* fraction: the numerator over 600000.  m1, m2 are over 10000 and hue is
\* in degrees (colorsys._v takes hue modulo one turn).
HlsV(m1, m2, hue) ==
    LET hd == hue % 360
    IN  IF hd < 60 THEN 60 * m1 + (m2 - m1) * hd
        ELSE IF hd < 180 THEN 60 * m2
        ELSE IF hd < 240 THEN 60 * m1 + (m2 - m1) * (240 - hd)
        ELSE 60 * m1

\* int(v * 255) of a channel num/den.
Channel(num, den) == Trunc(255 * num, den)

\* The three channels hls_to_rgb(h/360, l/100, s/100) returns, each an
\* exact fraction <<numerator, denominator>>.
HlsToRgb(h, s, l) ==
    IF s = 0
    THEN <<<<l, 100>>, <<l, 100>>, <<l, 100>>>>
    ELSE LET m2 == IF l <= 50 THEN l * (100 + s) ELSE 100 * l + 100 * s - l * s
             m1 == 200 * l - m2
         IN  <<<<HlsV(m1, m2, h + 120), 600000>>,
               <<HlsV(m1, m2, h), 600000>>,
               <<HlsV(m1, m2, h - 120), 600000>>>>

\* The hsl and hsla branches: hls_to_rgb, int(c * 255) on each channel,
\* then the hex format.
HslToHex(h, s, l) ==
    LET c == HlsToRgb(h, s, l)
    IN  FormatHex(Channel(c[1][1], c[1][2]),
                  Channel(c[2][1], c[2][2]),
                  Channel(c[3][1], c[3][2]))

\* The text a match is recorded under: match.group(0), lowercased for the
\* hex and the named expressions.
RawOf(lit) ==
    CASE lit.kind = "hex" -> [lit EXCEPT !.txt = LowerSeq(lit.txt)]
      [] lit.kind = "named" -> [lit EXCEPT !.name = LowerName(lit.name)]
      [] OTHER -> lit

\* The key a match is recorded under.
KeyOf(lit) ==
    CASE lit.kind = "hex" -> normalize_hex_color(RawOf(lit).txt)
      [] lit.kind \in {"rgb", "rgba"} -> FormatHex(lit.args[1], lit.args[2], lit.args[3])
      [] lit.kind \in {"hsl", "hsla"} -> HslToHex(lit.args[1], lit.args[2], lit.args[3])
      [] lit.kind = "named" -> NAMED_COLORS[RawOf(lit).name]

\* list.append(x) without the membership test.
AppendAlways(list, x) == Append(list, x)

\* list.append(x) unless x is in the list already.
AppendNew(list, x) == IF x \in Range(list) THEN list ELSE Append(list, x)

\* The two ifs that end each loop body of extract_colors_from_content.
AddMatch(color_matches, key, color) ==
    IF \E i \in 1..Len(color_matches) : color_matches[i].key = key
    THEN [i \in 1..Len(color_matches) |->
            IF color_matches[i].key = key
            THEN [color_matches[i] EXCEPT !.variations = AppendNew(@, color)]
            ELSE color_matches[i]]
    ELSE Append(color_matches, [key |-> key, variations |-> <<color>>])

\* re.finditer of one expression over the text: its matches, in text order.
Matches(text, kind) == SelectSeq(text, LAMBDA lit : lit.kind = kind)

\* One for loop of extract_colors_from_content over the matches ms.
RECURSIVE ScanMatches(_, _)
ScanMatches(ms, color_matches) ==
    IF ms = <<>> THEN color_matches
    ELSE ScanMatches(Tail(ms), AddMatch(color_matches, KeyOf(Head(ms)), RawOf(Head(ms))))

\* "r, g, b, a = match.groups()" raises ValueError unless there are
\* exactly n groups.
UnpackRaises(ms, n) == ms # <<>> /\ Len(Groups(Head(ms))) # n

\* The six loops in order.  The outcome is the mapping returned, or the
\* exception raised with the mapping as built so far (which is lost).
extract_colors_from_content(text) ==
    LET afterRgb == ScanMatches(Matches(text, "rgb"),
                                ScanMatches(Matches(text, "hex"), <<>>))
        afterHsl == ScanMatches(Matches(text, "hsl"),
                                ScanMatches(Matches(text, "rgba"), afterRgb))
    IN  IF UnpackRaises(Matches(text, "rgba"), 4)
        THEN [raised |-> TRUE, color_matches |-> afterRgb]
        ELSE IF UnpackRaises(Matches(text, "hsla"), 4)
        THEN [raised |-> TRUE, color_matches |-> afterHsl]
        ELSE [raised |-> FALSE,
              color_matches |-> ScanMatches(Matches(text, "named"),
                                  ScanMatches(Matches(text, "hsla"), afterHsl))]

\* analyze_file keeping what extraction had found when it raised.
analyze_file_partial(file) ==
    IF ~file.readable THEN <<>>
    ELSE extract_colors_from_content(file.text).color_matches

\* A file on disk: whether open() and read() succeed, and its text.
\* analyze_file returns {} on any exception.
analyze_file(file) ==
    IF ~file.readable THEN <<>>
    ELSE LET r == extract_colors_from_content(file.text)
         IN  IF r.raised THEN <<>> ELSE r.color_matches

---------------------------------------------------------------------------
(* Aggregator. *)

RECURSIVE AppendAllNew(_, _)
AppendAllNew(list, xs) ==
    IF xs = <<>> THEN list
    ELSE AppendAllNew(AppendNew(list, Head(xs)), Tail(xs))

\* The body of the inner loop of process_files for one
\* (normalized_value, variations) item of file_colors.
AggregateColor(cd, entry, file_str) ==
    IF ~(\E i \in 1..Len(cd) : cd[i].name = entry.key)
    THEN Append(cd, [name |-> entry.key,
                     count |-> 1,
                     variations |-> entry.variations,
                     unique |-> TRUE,
                     color_format |-> format_of_color(entry.variations[1]),
                     category |-> determine_color_category(entry.key),
                     locations |-> <<file_str>>])
    ELSE [i \in 1..Len(cd) |->
            IF cd[i].name = entry.key
            THEN [cd[i] EXCEPT !.count = @ + 1,
                               !.variations = AppendAllNew(@, entry.variations),
                               !.locations = AppendNew(@, file_str),
                               !.unique = FALSE]
            ELSE cd[i]]

\* The inner loop of process_files over file_colors.items().
RECURSIVE AggregateFile(_, _, _)
AggregateFile(cd, file_str, file_colors) ==
    IF file_colors = <<>> THEN cd
    ELSE AggregateFile(AggregateColor(cd, Head(file_colors), file_str),
                       file_str, Tail(file_colors))

\* The outer loop of process_files over the list fs, from the map cd.
RECURSIVE AggregateAll(_, _)
AggregateAll(fs, cd) ==
    IF fs = <<>> THEN cd
    ELSE AggregateAll(Tail(fs), AggregateFile(cd, Head(fs), analyze_file(disk[Head(fs)])))

\* "Organize colors by category": one list per category, categories and
\* records in insertion order.
RECURSIVE OrganizeByCategory(_, _)
OrganizeByCategory(cd, organized) ==
    IF cd = <<>> THEN organized
    ELSE LET info == Head(cd)
             next == IF \E i \in 1..Len(organized) : organized[i].category = info.category
                     THEN [i \in 1..Len(organized) |->
                             IF organized[i].category = info.category
                             THEN [organized[i] EXCEPT !.colors = Append(@, info)]
                             ELSE organized[i]]
                     ELSE Append(organized, [category |-> info.category, colors |-> <<info>>])
         IN  OrganizeByCategory(Tail(cd), next)

\* process_files(fs) as a whole, on the files as they are now.
process_files(fs) == OrganizeByCategory(AggregateAll(fs, <<>>), <<>>)

---------------------------------------------------------------------------
(* Inputs. *)

Paths == {"a.css", "b.css"}

Missing == [readable |-> FALSE, text |-> <<>>, mtime |-> 0]

\* The subsequences of s (elements kept in order) of length at most n.
RECURSIVE SubSeqsUpTo(_, _)
SubSeqsUpTo(s, n) ==
    IF s = <<>> \/ n = 0 THEN {<<>>}
    ELSE SubSeqsUpTo(Tail(s), n)
         \cup {<<Head(s)>> \o t : t \in SubSeqsUpTo(Tail(s), n - 1)}

\* The texts of the aggregation runs are cut from this one: spellings of
\* #ff0000 in four syntaxes (the named and the short hex one twice, in two
\* casings) and one other colour, in an order that is not the scan order.
MasterText ==
    <<NamedLit("RED"), RgbaLit(255, 0, 0, "0.5"), RgbLit(255, 0, 0),
      HexLit(<<"#", "f", "f", "f">>), HexLit(<<"#", "F", "0", "0">>),
      HexLit(<<"#", "f", "0", "0">>)>>

Texts == SubSeqsUpTo(MasterText, MaxLits)

DiskFiles == {Missing} \cup {[readable |-> TRUE, text |-> t, mtime |-> 0] : t \in Texts}

NoResult == [raised |-> FALSE, color_matches |-> <<>>]

\* The variables a pipeline does not use.
IdleCategory == hex_color = <<>> /\ hsl = <<>> /\ category = ""
IdleExtract == content = <<>> /\ result = NoResult
IdleFiles == files = <<>> /\ disk = [p \in Paths |-> Missing]
IdleAggregate == idx = 0 /\ color_data = <<>> /\ organized_data = <<>>
IdleWatch ==
    /\ last_modification_times = [p \in Paths |-> 0]
    /\ files_changed = FALSE /\ emitted = FALSE /\ report = <<>>

categoryVars == <<hex_color, hsl, category>>
extractVars == <<content, result>>
aggregateVars == <<idx, color_data, organized_data>>
watchVars == <<last_modification_times, files_changed, emitted, report>>

---------------------------------------------------------------------------
(* process_files, one iteration of its outer loop at a time. *)

Init ==
    /\ pc = "process_files"
    /\ fpLow \in BOOLEAN
    /\ files \in SeqsUpTo(Paths, MaxFiles) \ {<<>>}
    /\ disk \in [Paths -> DiskFiles]
    /\ IdleAggregate /\ IdleCategory /\ IdleExtract /\ IdleWatch

\* One iteration of "for file_path in files".
ProcessFile ==
    /\ pc = "process_files"
    /\ idx < Len(files)
    /\ LET file_path == files[idx + 1]
       IN  color_data' = AggregateFile(color_data, file_path, analyze_file(disk[file_path]))
    /\ idx' = idx + 1
    /\ UNCHANGED <<pc, fpLow, files, disk, organized_data,
                   categoryVars, extractVars, watchVars>>

\* The grouping after the loop, and the return.
Organize ==
    /\ pc = "process_files"
    /\ idx = Len(files)
    /\ organized_data' = OrganizeByCategory(color_data, <<>>)
    /\ pc' = "done"
    /\ UNCHANGED <<fpLow, files, disk, idx, color_data,
                   categoryVars, extractVars, watchVars>>

Next == ProcessFile \/ Organize

Spec == Init /\ [][Next]_vars

---------------------------------------------------------------------------
(* Properties of process_files. *)

\* The canonical colours the text of a file spells, whatever the syntax:
\* what a reader of the text finds in it.  A file that cannot be read has
\* no text.
TextKeys(file) == IF file.readable THEN {KeyOf(lit) : lit \in Range(file.text)} ELSE {}

\* The paths of fs whose text spells the colour key.
FilesContaining(fs, key) == {p \in Range(fs) : key \in TextKeys(disk[p])}

\* analyze_file fails on this path: the file cannot be read, or extraction
\* raises.
Fails(p) == ~disk[p].readable \/ extract_colors_from_content(disk[p].text).raised

NonFailing(fs) == SelectSeq(fs, LAMBDA p : ~Fails(p))

\* C1: once process_files has processed the list, the count of every colour
\* record is the number of distinct files of the list whose text contains a
\* literal canonicalizing to that colour.
C1_CountIsDistinctFiles ==
    pc = "done" =>
        \A i \in 1..Len(color_data) :
            color_data[i].count = Cardinality(FilesContaining(files, color_data[i].name))

\* C3: a file whose reading or extraction fails contributes nothing: after
\* every prefix of the list the aggregation map is the one obtained from
\* the prefix with its failing files removed, and the final report is the
\* report of the list with its failing files removed.
C3_FailingFileSkipped ==
    /\ pc \in {"process_files", "done"} =>
          color_data = AggregateAll(NonFailing(SubSeq(files, 1, idx)), <<>>)
    /\ pc = "done" => organized_data = process_files(NonFailing(files))

\* A run where the first file fails in extraction although its text
\* spells a colour, and the second file is processed and reported.
C3_Witness ==
    /\ pc = "done" /\ Len(files) = 2
    /\ Fails(files[1]) /\ TextKeys(disk[files[1]]) # {}
    /\ ~Fails(files[2]) /\ organized_data # <<>>

\* C5: after any prefix of the list, a record's unique flag is true exactly
\* when one file processed so far contains the colour.
C5_UniqueIffOneFile ==
    pc \in {"process_files", "done"} =>
        \A i \in 1..Len(color_data) :
            color_data[i].unique <=>
                Cardinality({k \in 1..idx :
                    color_data[i].name \in TextKeys(disk[files[k]])}) = 1

\* The variation lists the six scans produce for a text when none of them
\* raises: hex spellings first, then rgb, rgba, hsl, hsla, named.
ScanOrderLists(text) ==
    ScanMatches(Matches(text, "named"),
      ScanMatches(Matches(text, "hsla"),
        ScanMatches(Matches(text, "hsl"),
          ScanMatches(Matches(text, "rgba"),
            ScanMatches(Matches(text, "rgb"),
              ScanMatches(Matches(text, "hex"), <<>>))))))

FirstVariation(text, key) ==
    LET lists == ScanOrderLists(text)
        i == CHOOSE j \in 1..Len(lists) : lists[j].key = key
    IN  lists[i].variations[1]

\* C6: a record's color_format is the format of the first variation (in
\* scan order) of the first file of the list that contains the colour, and
\* stays so whatever later files contribute.
C6_FormatOfFirstFile ==
    pc \in {"process_files", "done"} =>
        \A i \in 1..Len(color_data) :
            LET key == color_data[i].name
                holders == {k \in 1..idx : key \in TextKeys(disk[files[k]])}
                first == CHOOSE k \in holders : \A m \in holders : k <= m
            IN  color_data[i].color_format =
                    format_of_color(FirstVariation(disk[files[first]].text, key))

\* C7: after any prefix of the list no record's variations or locations
\* list holds an element twice, and a step only appends to them: every
\* record stays in place and its two lists stay prefixes of what they become.
C7_NoDupAppendOnly ==
    /\ [](\A i \in 1..Len(color_data) :
            NoDup(color_data[i].variations) /\ NoDup(color_data[i].locations))
    /\ [][\A i \in 1..Len(color_data) :
            /\ i <= Len(color_data')
            /\ color_data'[i].name = color_data[i].name
            /\ IsPrefix(color_data[i].variations, color_data'[i].variations)
            /\ IsPrefix(color_data[i].locations, color_data'[i].locations)]_vars

\* A record that a second file added a spelling and a location to, after
\* offering a spelling the record held already.
C7_Witness ==
    /\ idx = 2
    /\ \E i \in 1..Len(color_data) :
          /\ Len(color_data[i].locations) = 2
          /\ Len(color_data[i].variations) >= 2
          /\ \E lit \in Range(disk[files[2]].text) :
                /\ RawOf(lit) \in Range(color_data[i].variations)
                /\ RawOf(lit) \in {RawOf(x) : x \in Range(disk[files[1]].text)}

---------------------------------------------------------------------------
(* determine_color_category on one colour. *)

ChannelValues == {0, 20, 64, 128, 191, 230, 255}

InitCategory ==
    /\ pc = "categorize"
    /\ fpLow \in BOOLEAN
    /\ hex_color \in {FormatHex(r, g, b) : r, g, b \in ChannelValues}
    /\ hsl = <<>> /\ category = ""
    /\ IdleExtract /\ IdleFiles /\ IdleAggregate /\ IdleWatch

Categorize ==
    /\ pc = "categorize"
    /\ LET rgb == hex_to_rgb(hex_color)
       IN  hsl' = rgb_to_hsl(rgb[1], rgb[2], rgb[3])
    /\ category' = determine_color_category(hex_color)
    /\ pc' = "categorized"
    /\ UNCHANGED <<fpLow, hex_color, files, disk, extractVars, aggregateVars, watchVars>>

SpecCategory == InitCategory /\ [][Categorize]_vars

\* The hue buckets as half-open intervals of degrees.
HueBucket(h) ==
    CASE h \in 345..359 \/ h \in 0..14 -> "red"
      [] h \in 15..44 -> "orange"
      [] h \in 45..74 -> "yellow"
      [] h \in 75..164 -> "green"
      [] h \in 165..194 -> "teal"
      [] h \in 195..254 -> "blue"
      [] h \in 255..314 -> "purple"
      [] h \in 315..344 -> "pink"

---------------------------------------------------------------------------
(* extract_colors_from_content on one text. *)

ExtractPool ==
    {HexLit(<<"#", "F", "F", "F">>), HexLit(<<"#", "f", "f", "f", "f", "f", "f">>),
     RgbLit(255, 0, 0), RgbLit(256, 0, 0),
     RgbaLit(255, 0, 0, "0.5"), RgbaLit(255, 0, 0, "1.0"),
     HslLit(200, 50, 50), HslLit(0, 0, 50), HslaLit(200, 50, 50, "0.5"),
     NamedLit("Red")}

InitExtract ==
    /\ pc = "extract"
    /\ fpLow \in BOOLEAN
    /\ content \in SeqsUpTo(ExtractPool, MaxLits)
    /\ result = NoResult
    /\ IdleCategory /\ IdleFiles /\ IdleAggregate /\ IdleWatch

Extract ==
    /\ pc = "extract"
    /\ result' = extract_colors_from_content(content)
    /\ pc' = "extracted"
    /\ UNCHANGED <<fpLow, content, files, disk, categoryVars, aggregateVars, watchVars>>

SpecExtract == InitExtract /\ [][Extract]_vars

\* The mapping returned holds the literal lit under the key.
Holds(key, lit) ==
    /\ ~result.raised
    /\ \E i \in 1..Len(result.color_matches) :
          /\ result.color_matches[i].key = key
          /\ lit \in Range(result.color_matches[i].variations)

\* C2: for a text with an rgba or hsla literal the mapping returned holds
\* the literal under the key of its colour components alone (the key of
\* the rgb or hsl literal with the same components), and the category of
\* hsla(200, 50%, 50%, 0.5) is blue.
C2_AlphaDiscarded ==
    pc = "extracted" =>
        \A lit \in Range(content) :
            /\ lit.kind = "rgba" =>
                  Holds(KeyOf(RgbLit(lit.args[1], lit.args[2], lit.args[3])), lit)
            /\ lit.kind = "hsla" =>
                  Holds(KeyOf(HslLit(lit.args[1], lit.args[2], lit.args[3])), lit)
            /\ lit = HslaLit(200, 50, 50, "0.5") =>
                  \E i \in 1..Len(result.color_matches) :
                      /\ lit \in Range(result.color_matches[i].variations)
                      /\ determine_color_category(result.color_matches[i].key) = "blue"

IsCanonical(key) ==
    /\ Len(key) = 7
    /\ key[1] = "#"
    /\ \A i \in 2..7 : key[i] \in Range(HexChars)

\* C4: every key of the mapping returned is a canonical colour: seven
\* characters, "#" and six lowercase hex digits.
C4_KeysCanonical ==
    pc = "extracted" /\ ~result.raised =>
        \A i \in 1..Len(result.color_matches) : IsCanonical(result.color_matches[i].key)

\* The integer c is a nearest integer to 255 * num / den.
IsNearest(c, num, den) ==
    /\ 2 * den * c - 510 * num <= den
    /\ 510 * num - 2 * den * c <= den

\* C10: the key of an hsl literal has each channel equal to the HSL-to-RGB
\* channel scaled by 255 and rounded to the nearest integer.
C10_HslChannelsRounded ==
    pc = "extracted" /\ ~result.raised =>
        \A lit \in Range(content) :
            lit.kind = "hsl" =>
                \E i \in 1..Len(result.color_matches) :
                    LET key == result.color_matches[i].key
                        exact == HlsToRgb(lit.args[1], lit.args[2], lit.args[3])
                        rgb == hex_to_rgb(key)
                    IN  /\ lit \in Range(result.color_matches[i].variations)
                        /\ IsCanonical(key)
                        /\ \A c \in 1..3 : IsNearest(rgb[c], exact[c][1], exact[c][2])

---------------------------------------------------------------------------
(* watch_files: the polling loop and the files changing under it. *)

WatchTexts == {<<HexLit(<<"#", "f", "f", "f">>)>>, <<NamedLit("RED")>>}

WatchFiles ==
    {Missing} \cup {[readable |-> TRUE, text |-> t, mtime |-> m] :
                        t \in WatchTexts, m \in 1..MaxTime}

InitWatch ==
    /\ pc = "watch_files"
    /\ fpLow \in BOOLEAN
    /\ files \in SeqsUpTo(Paths, MaxFiles) \ {<<>>}
    /\ disk \in [Paths -> WatchFiles]
    /\ IdleWatch /\ IdleAggregate /\ IdleCategory /\ IdleExtract

\* os.path.getmtime(file_path) succeeds.
StatOk(file) == file.readable

\* The comparison written ">=".
MtimeNotBefore(mtime, last) == mtime >= last

\* "mtime > last_modification_times.get(file_path, 0)"
MtimeAdvanced(mtime, last) == mtime > last

\* The loop before "while True": record each file's modification time, 0
\* when it cannot be read.
WatchStart ==
    /\ pc = "watch_files"
    /\ last_modification_times' =
          [p \in Paths |-> IF p \in Range(files) /\ StatOk(disk[p])
                           THEN disk[p].mtime
                           ELSE 0]
    /\ pc' = "polling"
    /\ UNCHANGED <<fpLow, files, disk, files_changed, emitted, report,
                   categoryVars, extractVars, aggregateVars>>

\* One iteration of "while True".  emitted says whether the iteration wrote
\* a report; the report written is json.dumps of the value of
\* process_files(files).
Poll ==
    /\ pc = "polling"
    /\ LET changed == {p \in Range(files) :
                          /\ StatOk(disk[p])
                          /\ MtimeAdvanced(disk[p].mtime, last_modification_times[p])}
       IN  /\ files_changed' = (changed # {})
           /\ last_modification_times' =
                 [p \in Paths |-> IF p \in changed
                                  THEN disk[p].mtime
                                  ELSE last_modification_times[p]]
           /\ IF changed # {}
              THEN /\ report' = process_files(files)
                   /\ emitted' = TRUE
              ELSE /\ report' = report
                   /\ emitted' = FALSE
    /\ UNCHANGED <<pc, fpLow, files, disk, categoryVars, extractVars, aggregateVars>>

\* Another program writes a tracked file (or creates it), at a later time
\* than the file had.
Touch ==
    /\ pc \in {"watch_files", "polling"}
    /\ \E p \in Range(files), t \in WatchTexts, m \in 1..MaxTime :
          /\ m > disk[p].mtime
          /\ disk' = [disk EXCEPT ![p] = [readable |-> TRUE, text |-> t, mtime |-> m]]
    /\ UNCHANGED <<pc, fpLow, files, categoryVars, extractVars, aggregateVars, watchVars>>

\* Another program removes a tracked file.
Remove ==
    /\ pc \in {"watch_files", "polling"}
    /\ \E p \in Range(files) :
          /\ disk[p].readable
          /\ disk' = [disk EXCEPT ![p] = Missing]
    /\ UNCHANGED <<pc, fpLow, files, categoryVars, extractVars, aggregateVars, watchVars>>

NextWatch == WatchStart \/ Poll \/ Touch \/ Remove

SpecWatch == InitWatch /\ [][NextWatch]_vars

\* The tracked files whose modification time is beyond the recorded one.
Advanced(d, last) == {p \in Range(files) : d[p].readable /\ d[p].mtime > last[p]}

\* C9: a polling iteration emits a report exactly when a tracked file's
\* modification time has advanced beyond the recorded one; the report is
\* the pipeline over all tracked files from an empty aggregation map; the
\* recorded time of each advanced file is updated, so that the same change
\* triggers no second report.
C9_ReportIffAdvanced ==
    [][Poll =>
        /\ Advanced(disk, last_modification_times) # {} =>
              /\ emitted'
              /\ report' = OrganizeByCategory(AggregateAll(files, <<>>), <<>>)
        /\ Advanced(disk, last_modification_times) = {} =>
              /\ ~emitted'
              /\ report' = report
        /\ \A p \in Advanced(disk, last_modification_times) :
              last_modification_times'[p] = disk[p].mtime
        /\ Advanced(disk', last_modification_times') = {}]_vars

\* A report over two tracked files was emitted after one of them was
\* written again, and the iteration after it found nothing advanced and
\* emitted nothing.
C9_Witness ==
    /\ pc = "polling" /\ Len(files) = 2 /\ files[1] # files[2]
    /\ ~emitted /\ ~files_changed
    /\ report # <<>> /\ report = process_files(files)
    /\ \E p \in Range(files) : disk[p].mtime = MaxTime /\ last_modification_times[p] = MaxTime
    /\ \E p \in Range(files) : last_modification_times[p] = 0

====
